---- MODULE Spec2Model ----
(***************************************************************************)
(* Chicken Foot domino engine (src/chickenfoot.py): the draw pool, the     *)
(* board tree, the players' hands and the Game state machine.              *)
(*                                                                         *)
(* A tile is <<a, b, id>>: its ends and the identity of the Tile object;   *)
(* the absent value None is the empty tuple.                               *)
(* A board is the sequence of its nodes in creation order; node 1 is the   *)
(* root and a node's children are the indices of its child nodes.          *)
(* `report` holds the info-level events the last step sent to the          *)
(* reporters, in the order of the calls.                                   *)
(***************************************************************************)
EXTENDS Integers, Sequences, FiniteSets, TLC

VARIABLES pc, set_size, required_root, starting_hand_size, kinds, players, hands,
          boneyard, nodes, state, current_chickie, turn, scores, err,
          report, rounds, games, aggregate_scores

vars == <<pc, set_size, required_root, starting_hand_size, kinds, players, hands,
          boneyard, nodes, state, current_chickie, turn, scores, err,
          report, rounds, games, aggregate_scores>>

\* the state of a GameRunner: the rounds asked for, the games it has made
\* (required root and final scores of each) and the running totals
runner == <<rounds, games, aggregate_scores>>

(* ------------------------------ bounds --------------------------------- *)
MaxSetSize == 4
DealSetSize == 2
MaxPlayers == 2
MaxHandSize == 2
TurnHandSize == 6
MaxStart == 0
MaxStride == 2
MaxNodes == 6
PlaySetSize == 1
MaxExtraDraws == 2
MaxTreeNodes == 5
MaxRounds == 3

(* ----------------------------- constants ------------------------------- *)
DOUBLE_BLANK_SCORE == 50
ROOT == "R"
OPEN == "O"
CHICKIE == "C"
NORMAL == "N"
INVERTED == "I"
None == <<>>
NoState == "None"
NoNode == 0

AttributeError == "AttributeError"
NodeFullException == "NodeFullException"
MismatchError == "ValueError:add_child"
NoAttachError == "ValueError:find_attach_position"

(* ------------------------------- Tile ---------------------------------- *)
\* A Tile object: its ends a and b, and the identity of the object.  Tile
\* defines no __eq__, so two Tile objects are equal only if they are the
\* same object: tiles with the same ends made by different constructions
\* differ in `id`.
Tile(a, b, id) == <<a, b, id>>
\* Tile.ends
ends_of(t) == <<t[1], t[2]>>
is_double(t) == t[1] = t[2]
HasEnd(t, x) == x = t[1] \/ x = t[2]
\* value without the double-blank rule
value_plain(t) == t[1] + t[2]

value(t) == LET raw_score == t[1] + t[2]
            IN IF raw_score = 0 THEN DOUBLE_BLANK_SCORE ELSE raw_score

(* ------------------------------ helpers -------------------------------- *)
Min(x, y) == IF x < y THEN x ELSE y
Range(s) == {s[i] : i \in 1..Len(s)}
RemoveAt(s, i) == [k \in 1..(Len(s) - 1) |-> IF k < i THEN s[k] ELSE s[k + 1]]
FirstIndex(s, x) == CHOOSE i \in 1..Len(s) : s[i] = x /\ \A k \in 1..(i - 1) : s[k] # x
\* list.remove(x): drops the first element equal to x; two Tile objects are
\* equal only when they are the same object, that is when their ends and
\* their id agree
ListRemove(s, x) == RemoveAt(s, FirstIndex(s, x))

(* --------------------------- draw pool --------------------------------- *)
RECURSIVE factorial_combinations(_, _)
factorial_combinations(max, id) ==
    IF max < 0 THEN <<>>
    ELSE factorial_combinations(max - 1, id)
            \o [a1 \in 1..(max + 1) |-> Tile(a1 - 1, max, id)]

\* Boneyard(size): the tiles of the set, made anew by every construction;
\* `id` tells the constructions apart
NewBoneyard(size, id) == factorial_combinations(size, id)

(* ---------------------------- random source ---------------------------- *)
\* A call of random() returns x / RandMod for some x in 0..RandMod-1, chosen
\* anew by every call.  RandMod is the length of the longest sequence the
\* step can pass to random.choice or random.shuffle: the pool, the players,
\* or the opportunities of a hand that has drawn a tile; so every element of
\* every sequence is chosen under some value, whatever the other calls return.
\* A step that makes up to k calls takes the values they return, in the order
\* of the calls, from RandomValues(k); `pos` is what is left of them.
RandMod ==
    LET lens == {Len(boneyard), Len(players)} \cup {Len(hands[p]) + 1 : p \in DOMAIN hands}
    IN CHOOSE m \in lens : \A n \in lens : n <= m
RandomValues(k) == [1..k -> 0..(RandMod - 1)]
NextPos(pos) == Tail(pos)
RandomAt(pos) == Head(pos)

\* random.choice(seq) = seq[int(random() * len(seq))], as a 1-based index
ChoiceIndex(seq, pos) == ((RandomAt(pos) * Len(seq)) \div RandMod) + 1

\* random.shuffle(x): for i from len(x)-1 down to 1, j = int(random()*(i+1)),
\* swap x[i] and x[j]; here i is 1-based and runs from Len(x) down to 2
RECURSIVE ShuffleFrom(_, _, _)
ShuffleFrom(x, i, pos) ==
    IF i < 2 THEN [seq |-> x, pos |-> pos]
    ELSE LET j == ((RandomAt(pos) * i) \div RandMod) + 1
         IN ShuffleFrom([x EXCEPT ![i] = x[j], ![j] = x[i]], i - 1, NextPos(pos))

shuffle(x, pos) == ShuffleFrom(x, Len(x), pos)
\* the calls of random() that shuffle makes on a list of n elements
ShuffleCalls(n) == IF n < 2 THEN 0 ELSE n - 1

\* draw that returns a random tile of the pool without removing it
draw_keep(pool, pos) ==
    IF pool = <<>> THEN [tile |-> None, pool |-> pool, pos |-> pos]
    ELSE LET i == ChoiceIndex(pool, pos)
         IN [tile |-> pool[i], pool |-> pool, pos |-> NextPos(pos)]

\* Boneyard.draw: None from an empty pool, else a random tile, removed
draw(pool, pos) ==
    IF pool = <<>> THEN [tile |-> None, pool |-> pool, pos |-> pos]
    ELSE LET i == ChoiceIndex(pool, pos)
         IN [tile |-> pool[i], pool |-> ListRemove(pool, pool[i]), pos |-> NextPos(pos)]

(* ----------------------------- board tree ------------------------------ *)
Node(tile, max_children, orientation) ==
    [tile |-> tile, max_children |-> max_children, orientation |-> orientation,
     children |-> <<>>]

Root(tile) ==
    [tile |-> tile, max_children |-> 4, orientation |-> NORMAL, children |-> <<>>]

bottom(n) == IF n.orientation = NORMAL THEN n.tile[2] ELSE n.tile[1]

\* add_child that puts the new child at the head of the child list
add_child_front(ns, parent, tile) ==
    IF Len(ns[parent].children) = ns[parent].max_children
    THEN [err |-> NodeFullException, nodes |-> ns, child |-> NoNode]
    ELSE IF ~HasEnd(tile, bottom(ns[parent]))
    THEN [err |-> MismatchError, nodes |-> ns, child |-> NoNode]
    ELSE LET child == Node(tile,
                           IF ~is_double(tile) THEN 1 ELSE 3,
                           IF bottom(ns[parent]) = tile[1] THEN NORMAL ELSE INVERTED)
             id == Len(ns) + 1
         IN [err |-> "",
             nodes |-> Append([ns EXCEPT ![parent].children = <<id>> \o @], child),
             child |-> id]

\* add_child that looks at the ends of the tile before it looks for room
add_child_matchfirst(ns, parent, tile) ==
    IF ~HasEnd(tile, bottom(ns[parent]))
    THEN [err |-> MismatchError, nodes |-> ns, child |-> NoNode]
    ELSE IF Len(ns[parent].children) = ns[parent].max_children
    THEN [err |-> NodeFullException, nodes |-> ns, child |-> NoNode]
    ELSE LET child == Node(tile,
                           IF ~is_double(tile) THEN 1 ELSE 3,
                           IF bottom(ns[parent]) = tile[1] THEN NORMAL ELSE INVERTED)
             id == Len(ns) + 1
         IN [err |-> "",
             nodes |-> Append([ns EXCEPT ![parent].children = Append(@, id)], child),
             child |-> id]

\* add_child that gives the child the opposite orientation
add_child_flip(ns, parent, tile) ==
    IF Len(ns[parent].children) = ns[parent].max_children
    THEN [err |-> NodeFullException, nodes |-> ns, child |-> NoNode]
    ELSE IF ~HasEnd(tile, bottom(ns[parent]))
    THEN [err |-> MismatchError, nodes |-> ns, child |-> NoNode]
    ELSE LET child == Node(tile,
                           IF ~is_double(tile) THEN 1 ELSE 3,
                           IF bottom(ns[parent]) = tile[1] THEN INVERTED ELSE NORMAL)
             id == Len(ns) + 1
         IN [err |-> "",
             nodes |-> Append([ns EXCEPT ![parent].children = Append(@, id)], child),
             child |-> id]

\* add_child without the capacity check
add_child_nocap(ns, parent, tile) ==
    IF ~HasEnd(tile, bottom(ns[parent]))
    THEN [err |-> MismatchError, nodes |-> ns, child |-> NoNode]
    ELSE LET child == Node(tile,
                           IF ~is_double(tile) THEN 1 ELSE 3,
                           IF bottom(ns[parent]) = tile[1] THEN NORMAL ELSE INVERTED)
             id == Len(ns) + 1
         IN [err |-> "",
             nodes |-> Append([ns EXCEPT ![parent].children = Append(@, id)], child),
             child |-> id]

\* Node.add_child on node `parent` of board ns: the error raised ("" if
\* none), the board afterwards and the index of the new child
add_child(ns, parent, tile) ==
    IF Len(ns[parent].children) = ns[parent].max_children
    THEN [err |-> NodeFullException, nodes |-> ns, child |-> NoNode]
    ELSE IF ~HasEnd(tile, bottom(ns[parent]))
    THEN [err |-> MismatchError, nodes |-> ns, child |-> NoNode]
    ELSE LET child == Node(tile,
                           IF ~is_double(tile) THEN 1 ELSE 3,
                           IF bottom(ns[parent]) = tile[1] THEN NORMAL ELSE INVERTED)
             id == Len(ns) + 1
         IN [err |-> "",
             nodes |-> Append([ns EXCEPT ![parent].children = Append(@, id)], child),
             child |-> id]

\* Node.leaves: the indices of the childless nodes below (or at) node id in
\* depth-first, left-to-right order
\* leaves that yields the childless nodes in the order of their creation
leaves_created(ns, id) ==
    SelectSeq([i \in 1..Len(ns) |-> i], LAMBDA i : ns[i].children = <<>>)

RECURSIVE leaves(_, _)
RECURSIVE LeavesOfEach(_, _)
LeavesOfEach(ns, ids) ==
    IF ids = <<>> THEN <<>>
    ELSE leaves(ns, Head(ids)) \o LeavesOfEach(ns, Tail(ids))

leaves(ns, id) ==
    IF ns[id].children # <<>> THEN LeavesOfEach(ns, ns[id].children)
    ELSE <<id>>

\* find_attach_position that returns the last matching leaf
find_attach_position_last(ns, tile) ==
    LET ls == leaves(ns, 1)
        hits == {i \in 1..Len(ls) : HasEnd(tile, bottom(ns[ls[i]]))}
    IN IF hits = {} THEN [err |-> NoAttachError, node |-> NoNode]
       ELSE [err |-> "", node |-> ls[CHOOSE i \in hits : \A k \in hits : i >= k]]

\* Node.find_attach_position called on the root: the first leaf whose bottom
\* is an end of the tile, or the ValueError
find_attach_position(ns, tile) ==
    LET ls == leaves(ns, 1)
        hits == {i \in 1..Len(ls) : HasEnd(tile, bottom(ns[ls[i]]))}
    IN IF hits = {} THEN [err |-> NoAttachError, node |-> NoNode]
       ELSE [err |-> "", node |-> ls[CHOOSE i \in hits : \A k \in hits : i <= k]]

(* ------------------------------- Player -------------------------------- *)
add_tile(hand, tile) == Append(hand, tile)

\* fetch_tile that never finds the tile asked for
fetch_tile_never(hand, a, b) == [err |-> "", tile |-> None, hand |-> hand]

\* fetch_tile that returns the matching tile but leaves it in the hand
fetch_tile_keep(hand, a, b) ==
    LET stops == {i \in 1..Len(hand) :
                     \/ hand[i] = None
                     \/ (hand[i][1] = a /\ hand[i][2] = b)
                     \/ (hand[i][1] = b /\ hand[i][2] = a)}
    IN IF stops = {} THEN [err |-> "", tile |-> None, hand |-> hand]
       ELSE LET i == CHOOSE k \in stops : \A m \in stops : k <= m
            IN IF hand[i] = None
               THEN [err |-> AttributeError, tile |-> None, hand |-> hand]
               ELSE [err |-> "", tile |-> hand[i], hand |-> hand]

\* fetch_tile that matches the ends in the order given only
fetch_tile_ordered(hand, a, b) ==
    LET stops == {i \in 1..Len(hand) :
                     \/ hand[i] = None
                     \/ (hand[i][1] = a /\ hand[i][2] = b)}
    IN IF stops = {} THEN [err |-> "", tile |-> None, hand |-> hand]
       ELSE LET i == CHOOSE k \in stops : \A m \in stops : k <= m
            IN IF hand[i] = None
               THEN [err |-> AttributeError, tile |-> None, hand |-> hand]
               ELSE [err |-> "", tile |-> hand[i], hand |-> RemoveAt(hand, i)]

\* Player.fetch_tile: scans the hand in order; reading .a of an absent entry
\* raises AttributeError, a match is removed and returned, otherwise None
fetch_tile(hand, a, b) ==
    LET stops == {i \in 1..Len(hand) :
                     \/ hand[i] = None
                     \/ (hand[i][1] = a /\ hand[i][2] = b)
                     \/ (hand[i][1] = b /\ hand[i][2] = a)}
    IN IF stops = {} THEN [err |-> "", tile |-> None, hand |-> hand]
       ELSE LET i == CHOOSE k \in stops : \A m \in stops : k <= m
            IN IF hand[i] = None
               THEN [err |-> AttributeError, tile |-> None, hand |-> hand]
               ELSE [err |-> "", tile |-> hand[i], hand |-> RemoveAt(hand, i)]

\* Player.score: sum of the tile values of the hand; AttributeError on an
\* absent entry
RECURSIVE SumValues(_)
SumValues(hand) == IF hand = <<>> THEN 0 ELSE value(Head(hand)) + SumValues(Tail(hand))

HasNone(hand) == \E i \in 1..Len(hand) : hand[i] = None

score(hand) ==
    IF HasNone(hand) THEN [err |-> AttributeError, val |-> 0]
    ELSE [err |-> "", val |-> SumValues(hand)]

\* sorted(opportunities, key=value, reverse=True): a stable sort, so tiles
\* of equal value keep the order they have in the list
InsertByValue(sorted, tile) ==
    LET ahead == {k \in 1..Len(sorted) : value(sorted[k]) >= value(tile)}
    IN SubSeq(sorted, 1, Cardinality(ahead)) \o <<tile>>
          \o SubSeq(sorted, Cardinality(ahead) + 1, Len(sorted))

RECURSIVE SortedFrom(_, _)
SortedFrom(sorted, rest) ==
    IF rest = <<>> THEN sorted
    ELSE SortedFrom(InsertByValue(sorted, Head(rest)), Tail(rest))

sorted_by_value(opportunities) == SortedFrom(<<>>, opportunities)

\* _pick_tile of MaxValuePlayer with a sort that turns ties around
MaxValuePick_unstable(opportunities) ==
    LET last == CHOOSE k \in 1..Len(opportunities) :
                   /\ \A m \in 1..Len(opportunities) :
                         value(opportunities[m]) <= value(opportunities[k])
                   /\ \A m \in (k + 1)..Len(opportunities) :
                         value(opportunities[m]) < value(opportunities[k])
    IN opportunities[last]

\* MaxValuePlayer._pick_tile: the first element of the sorted list
MaxValuePick(opportunities) == sorted_by_value(opportunities)[1]

\* RandomPlayer._pick_tile: random.choice(opportunities)
RandomPick(opportunities, pos) == opportunities[ChoiceIndex(opportunities, pos)]

RandomPlayer == "RandomPlayer"
MaxValuePlayer == "MaxValuePlayer"

\* Player._pick_tile by class: the tile chosen and the random values left
_pick_tile(kind, opportunities, pos) ==
    IF kind = MaxValuePlayer THEN [tile |-> MaxValuePick(opportunities), pos |-> pos]
    ELSE [tile |-> RandomPick(opportunities, pos), pos |-> NextPos(pos)]

\* pick_tile that removes the first tile with the ends of the chosen one
pick_tile_byends(hand, chosen) ==
    RemoveAt(hand, CHOOSE i \in 1..Len(hand) :
                      /\ hand[i] # None /\ ends_of(hand[i]) = ends_of(chosen)
                      /\ \A k \in 1..(i - 1) :
                            hand[k] = None \/ ends_of(hand[k]) # ends_of(chosen))

\* pick_tile that takes the last tile of the hand instead of the chosen one
pick_tile_pop(hand, chosen) == RemoveAt(hand, Len(hand))

\* Player.pick_tile: the chosen tile leaves the hand
pick_tile(hand, chosen) == ListRemove(hand, chosen)

(* -------------------------------- Game --------------------------------- *)
leaf_ends(ns) == {bottom(ns[i]) : i \in Range(leaves(ns, 1))}

\* _opportunities that, in open play, also accepts a tile matching the
\* root-facing end of a leaf tile
_opportunities_anyend(st, ns, chickie, hand) ==
    IF HasNone(hand) THEN [err |-> AttributeError, val |-> <<>>]
    ELSE IF st = CHICKIE
    THEN [err |-> "",
          val |-> LET Keep(tile) == HasEnd(tile, ns[chickie].tile[1])
                  IN SelectSeq(hand, Keep)]
    ELSE IF st = ROOT
    THEN [err |-> "",
          val |-> LET Keep(tile) == HasEnd(tile, ns[1].tile[1])
                  IN SelectSeq(hand, Keep)]
    ELSE [err |-> "",
          val |-> LET ends == UNION {{ns[i].tile[1], ns[i].tile[2]} :
                                        i \in Range(leaves(ns, 1))}
                      Keep(tile) == ends \cap {tile[1], tile[2]} # {}
                  IN SelectSeq(hand, Keep)]

\* _opportunities without the ROOT case: the leaves count while the root is
\* being filled
_opportunities_noroot(st, ns, chickie, hand) ==
    IF HasNone(hand) THEN [err |-> AttributeError, val |-> <<>>]
    ELSE IF st = CHICKIE
    THEN [err |-> "",
          val |-> LET Keep(tile) == HasEnd(tile, ns[chickie].tile[1])
                  IN SelectSeq(hand, Keep)]
    ELSE [err |-> "",
          val |-> LET Keep(tile) == leaf_ends(ns) \cap {tile[1], tile[2]} # {}
                  IN SelectSeq(hand, Keep)]

\* _opportunities without the CHICKIE case: any leaf counts while a chicken
\* foot is open
_opportunities_nochickie(st, ns, chickie, hand) ==
    IF HasNone(hand) THEN [err |-> AttributeError, val |-> <<>>]
    ELSE IF st = ROOT
    THEN [err |-> "",
          val |-> LET Keep(tile) == HasEnd(tile, ns[1].tile[1])
                  IN SelectSeq(hand, Keep)]
    ELSE [err |-> "",
          val |-> LET Keep(tile) == leaf_ends(ns) \cap {tile[1], tile[2]} # {}
                  IN SelectSeq(hand, Keep)]

\* Game._opportunities: each list comprehension reads .ends of every hand
\* entry, so an absent entry raises AttributeError
_opportunities(st, ns, chickie, hand) ==
    IF HasNone(hand) THEN [err |-> AttributeError, val |-> <<>>]
    ELSE IF st = CHICKIE
    THEN [err |-> "",
          val |-> LET Keep(tile) == HasEnd(tile, ns[chickie].tile[1])
                  IN SelectSeq(hand, Keep)]
    ELSE IF st = ROOT
    THEN [err |-> "",
          val |-> LET Keep(tile) == HasEnd(tile, ns[1].tile[1])
                  IN SelectSeq(hand, Keep)]
    ELSE [err |-> "",
          val |-> LET Keep(tile) == leaf_ends(ns) \cap {tile[1], tile[2]} # {}
                  IN SelectSeq(hand, Keep)]

\* StateAfterPlay that takes the root for closed at its 3rd child
StateAfterPlay_root3(st, ns, chickie, tile, child) ==
    IF st = ROOT /\ Len(ns[1].children) = 3
    THEN [state |-> OPEN, current_chickie |-> chickie]
    ELSE IF is_double(tile)
    THEN [state |-> CHICKIE, current_chickie |-> child]
    ELSE IF ~is_double(tile) /\ st = CHICKIE /\ Len(ns[chickie].children) = 3
    THEN [state |-> OPEN, current_chickie |-> NoNode]
    ELSE [state |-> st, current_chickie |-> chickie]

\* StateAfterPlay that remembers the double but does not change the state
StateAfterPlay_nochickie(st, ns, chickie, tile, child) ==
    IF st = ROOT /\ Len(ns[1].children) = 4
    THEN [state |-> OPEN, current_chickie |-> chickie]
    ELSE IF is_double(tile)
    THEN [state |-> st, current_chickie |-> child]
    ELSE IF ~is_double(tile) /\ st = CHICKIE /\ Len(ns[chickie].children) = 3
    THEN [state |-> OPEN, current_chickie |-> NoNode]
    ELSE [state |-> st, current_chickie |-> chickie]

\* StateAfterPlay that closes the chicken foot at its 2nd child
StateAfterPlay_close2(st, ns, chickie, tile, child) ==
    IF st = ROOT /\ Len(ns[1].children) = 4
    THEN [state |-> OPEN, current_chickie |-> chickie]
    ELSE IF is_double(tile)
    THEN [state |-> CHICKIE, current_chickie |-> child]
    ELSE IF ~is_double(tile) /\ st = CHICKIE /\ Len(ns[chickie].children) = 2
    THEN [state |-> OPEN, current_chickie |-> NoNode]
    ELSE [state |-> st, current_chickie |-> chickie]

\* StateAfterPlay that keeps the node remembered when the chicken foot closes
StateAfterPlay_remember(st, ns, chickie, tile, child) ==
    IF st = ROOT /\ Len(ns[1].children) = 4
    THEN [state |-> OPEN, current_chickie |-> chickie]
    ELSE IF is_double(tile)
    THEN [state |-> CHICKIE, current_chickie |-> child]
    ELSE IF ~is_double(tile) /\ st = CHICKIE /\ Len(ns[chickie].children) = 3
    THEN [state |-> OPEN, current_chickie |-> chickie]
    ELSE [state |-> st, current_chickie |-> chickie]

\* StateAfterPlay that tests the double before the completion of the root
StateAfterPlay_doublefirst(st, ns, chickie, tile, child) ==
    IF is_double(tile)
    THEN [state |-> CHICKIE, current_chickie |-> child]
    ELSE IF st = ROOT /\ Len(ns[1].children) = 4
    THEN [state |-> OPEN, current_chickie |-> chickie]
    ELSE IF ~is_double(tile) /\ st = CHICKIE /\ Len(ns[chickie].children) = 3
    THEN [state |-> OPEN, current_chickie |-> NoNode]
    ELSE [state |-> st, current_chickie |-> chickie]

\* the state transitions of Game._handle_play, evaluated on the board after
\* the attach: the new state and the remembered chicken-foot node
StateAfterPlay(st, ns, chickie, tile, child) ==
    IF st = ROOT /\ Len(ns[1].children) = 4
    THEN [state |-> OPEN, current_chickie |-> chickie]
    ELSE IF is_double(tile)
    THEN [state |-> CHICKIE, current_chickie |-> child]
    ELSE IF ~is_double(tile) /\ st = CHICKIE /\ Len(ns[chickie].children) = 3
    THEN [state |-> OPEN, current_chickie |-> NoNode]
    ELSE [state |-> st, current_chickie |-> chickie]

\* Game._handle_play: attach, then the state transitions; an exception of
\* add_child leaves everything as it was
_handle_play(st, ns, chickie, tile, parent) ==
    LET added == add_child(ns, parent, tile)
    IN IF added.err # ""
       THEN [err |-> added.err, nodes |-> ns, state |-> st, current_chickie |-> chickie]
       ELSE LET after == StateAfterPlay(st, added.nodes, chickie, tile, added.child)
            IN [err |-> "", nodes |-> added.nodes, state |-> after.state,
                current_chickie |-> after.current_chickie]

\* _round_over that ends the round when nobody can play, whatever the pool
_round_over_nopool(st, ns, chickie, order, hs, pool) ==
    IF \E i \in 1..Len(order) : hs[order[i]] = <<>>
    THEN [err |-> "", val |-> TRUE]
    ELSE LET opps(i) == _opportunities(st, ns, chickie, hs[order[i]])
             stops == {i \in 1..Len(order) : opps(i).err # "" \/ opps(i).val # <<>>}
         IN IF stops = {} THEN [err |-> "", val |-> TRUE]
            ELSE LET i == CHOOSE k \in stops : \A m \in stops : k <= m
                 IN IF opps(i).err # "" THEN [err |-> opps(i).err, val |-> FALSE]
                    ELSE [err |-> "", val |-> FALSE]

\* Game._round_over: TRUE / FALSE in val, or the AttributeError of the first
\* _opportunities call that meets an absent hand entry
_round_over(st, ns, chickie, order, hs, pool) ==
    IF \E i \in 1..Len(order) : hs[order[i]] = <<>>
    THEN [err |-> "", val |-> TRUE]
    ELSE LET opps(i) == _opportunities(st, ns, chickie, hs[order[i]])
             stops == {i \in 1..Len(order) : opps(i).err # "" \/ opps(i).val # <<>>}
         IN IF stops = {} THEN [err |-> "", val |-> pool = <<>>]
            ELSE LET i == CHOOSE k \in stops : \A m \in stops : k <= m
                 IN IF opps(i).err # "" THEN [err |-> opps(i).err, val |-> FALSE]
                    ELSE [err |-> "", val |-> FALSE]

(* ------------------------------ reporters ------------------------------- *)
\* the calls Game makes on self.report, as the events the reporters receive
initial_hands == <<"initial_hands">>
root_not_found == <<"root_not_found">>
root_found(player, tile) == <<"root_found", player, tile>>
play_order(order) == <<"play_order", order>>
turn_start(player, st) == <<"turn_start", player, st>>
draw_event(player, tile) == <<"draw", player, tile>>
play(player, tile, parent_tile) == <<"play", player, tile, parent_tile>>

(* ------------------------- Game.run, step by step ----------------------- *)
\* k successive Boneyard.draw() calls: the values returned (None once the
\* pool is empty), the pool left and the random values left
RECURSIVE DrawMany(_, _, _)
DrawMany(pool, k, pos) ==
    IF k = 0 THEN [drawn |-> <<>>, pool |-> pool, pos |-> pos]
    ELSE LET d == draw(pool, pos)
             r == DrawMany(d.pool, k - 1, d.pos)
         IN [drawn |-> <<d.tile>> \o r.drawn, pool |-> r.pool, pos |-> r.pos]

PositionOf(order, p) == CHOOSE i \in 1..Len(order) : order[i] = p

\* A Game of up to MaxPlayers players over a set of up to DealSetSize, just
\* constructed: the pool is full, the hands are empty, there is no root.
Init ==
    /\ pc = "deal"
    /\ set_size \in 1..DealSetSize
    /\ required_root \in 0..set_size
    /\ starting_hand_size \in 1..MaxHandSize
    /\ players \in {[i \in 1..n |-> i] : n \in 1..MaxPlayers}
    /\ kinds \in [Range(players) -> {RandomPlayer, MaxValuePlayer}]
    /\ hands = [p \in Range(players) |-> <<>>]
    /\ boneyard = NewBoneyard(set_size, 1)
    /\ nodes = <<>>
    /\ state = NoState
    /\ current_chickie = NoNode
    /\ turn = 1
    /\ scores = <<>>
    /\ err = ""
    /\ report = <<>>
    /\ rounds = 0
    /\ games = <<>>
    /\ aggregate_scores = <<>>

\* Game._setup_player_hands
SetupPlayerHands ==
    /\ pc = "deal"
    /\ \E pos \in RandomValues(Len(players) * starting_hand_size) :
          LET r == DrawMany(boneyard, Len(players) * starting_hand_size, pos)
          IN /\ hands' = [p \in DOMAIN hands |->
                             LET j == PositionOf(players, p)
                             IN hands[p] \o SubSeq(r.drawn, (j - 1) * starting_hand_size + 1,
                                                   j * starting_hand_size)]
             /\ boneyard' = r.pool
    /\ pc' = "rootfind"
    /\ report' = <<initial_hands>>
    /\ UNCHANGED <<set_size, required_root, starting_hand_size, kinds, players, nodes,
                   state, current_chickie, turn, scores, err>>
    /\ UNCHANGED runner

\* Reseat that lets the holder of the root tile open the turn order
Reseat_first(order, i, pos) ==
    LET shuffled == shuffle(RemoveAt(order, i), pos)
    IN [seq |-> <<order[i]>> \o shuffled.seq, pos |-> shuffled.pos]

\* the order of play once player order[i] has shown the root tile: the player
\* is removed, the others are shuffled and the player is appended
Reseat(order, i, pos) ==
    LET shuffled == shuffle(RemoveAt(order, i), pos)
    IN [seq |-> Append(shuffled.seq, order[i]), pos |-> shuffled.pos]

\* Game._root_tile_turn, one invocation of the loop of run(); the invocation
\* that seeds the root is followed by the assignment of the ROOT state
RootTileTurn ==
    /\ pc = "rootfind"
    /\ LET fetched(i) == fetch_tile(hands[players[i]], required_root, required_root)
           stops == {i \in 1..Len(players) : fetched(i).err # "" \/ fetched(i).tile # None}
       IN IF stops = {}
          THEN \E pos \in RandomValues(Len(players)) :
                  LET r == DrawMany(boneyard, Len(players), pos)
                  IN /\ hands' = [p \in DOMAIN hands |->
                                     add_tile(hands[p], r.drawn[PositionOf(players, p)])]
                     /\ boneyard' = r.pool
                     /\ report' = <<root_not_found>>
                     /\ UNCHANGED <<pc, players, nodes, state, turn, err>>
          ELSE LET i == CHOOSE k \in stops : \A m \in stops : k <= m
               IN IF fetched(i).err # ""
                  THEN /\ pc' = "crashed"
                       /\ err' = fetched(i).err
                       /\ report' = <<>>
                       /\ UNCHANGED <<players, hands, boneyard, nodes, state, turn>>
                  ELSE \E pos \in RandomValues(ShuffleCalls(Len(players) - 1)) :
                          LET seated == Reseat(players, i, pos)
                          IN /\ players' = seated.seq
                             /\ hands' = [hands EXCEPT ![players[i]] = fetched(i).hand]
                             /\ nodes' = <<Root(fetched(i).tile)>>
                             /\ state' = ROOT
                             /\ pc' = "turn"
                             /\ turn' = 1
                             /\ report' = <<root_found(players[i], fetched(i).tile),
                                            play_order(seated.seq)>>
                             /\ UNCHANGED <<boneyard, err>>
    /\ UNCHANGED <<set_size, required_root, starting_hand_size, kinds, current_chickie,
                   scores>>
    /\ UNCHANGED runner

\* an exception leaves run(): what was changed before it stays changed
Raise(e, hs, pool, ns, st, chickie, rep) ==
    /\ pc' = "crashed"
    /\ err' = e
    /\ hands' = hs
    /\ boneyard' = pool
    /\ nodes' = ns
    /\ state' = st
    /\ current_chickie' = chickie
    /\ report' = rep
    /\ UNCHANGED <<turn, scores>>

\* the end of one iteration of the turn loop: the round-over check, then
\* either the next player or the scores
TurnEnd(hs, pool, ns, st, chickie, rep) ==
    LET over == _round_over(st, ns, chickie, players, hs, pool)
    IN IF over.err # "" THEN Raise(over.err, hs, pool, ns, st, chickie, rep)
       ELSE IF ~over.val
       THEN /\ turn' = (turn % Len(players)) + 1
            /\ hands' = hs /\ boneyard' = pool /\ nodes' = ns
            /\ state' = st /\ current_chickie' = chickie
            /\ report' = rep
            /\ UNCHANGED <<pc, scores, err>>
       ELSE IF \E p \in DOMAIN hs : score(hs[p]).err # ""
       THEN Raise(AttributeError, hs, pool, ns, st, chickie, rep)
       ELSE /\ pc' = "done"
            /\ scores' = [p \in DOMAIN hs |-> score(hs[p]).val]
            /\ hands' = hs /\ boneyard' = pool /\ nodes' = ns
            /\ state' = st /\ current_chickie' = chickie
            /\ report' = rep
            /\ UNCHANGED <<turn, err>>

\* the calls of random() that _pick_tile of a player of the kind makes
PickCalls(kind) == IF kind = RandomPlayer THEN 1 ELSE 0

\* ResolveParent that looks for a leaf while a chicken foot is open
ResolveParent_anyleaf(st, ns, chickie, tile) ==
    IF st = ROOT THEN [err |-> "", node |-> 1]
    ELSE find_attach_position(ns, tile)

\* the parent run() resolves for a tile from the current state
ResolveParent(st, ns, chickie, tile) ==
    IF st = CHICKIE THEN [err |-> "", node |-> chickie]
    ELSE IF st = ROOT THEN [err |-> "", node |-> 1]
    ELSE find_attach_position(ns, tile)

\* the play of a tile from the opportunities: pick, resolve the parent, attach
Play(player, hand1, pool, opportunities, pos, rep) ==
    LET picked == _pick_tile(kinds[player], opportunities, pos)
        hs == [hands EXCEPT ![player] = pick_tile(hand1, picked.tile)]
        found == ResolveParent(state, nodes, current_chickie, picked.tile)
    IN IF found.err # ""
       THEN Raise(found.err, hs, pool, nodes, state, current_chickie, rep)
       ELSE LET played == _handle_play(state, nodes, current_chickie, picked.tile,
                                       found.node)
            IN IF played.err # ""
               THEN Raise(played.err, hs, pool, nodes, state, current_chickie, rep)
               ELSE TurnEnd(hs, pool, played.nodes, played.state, played.current_chickie,
                            Append(rep, play(player, picked.tile, nodes[found.node].tile)))

\* AfterDraw that skips the play: the turn ends with the hand as it is
AfterDraw_skip(player, hand1, pool, opportunities, pos, rep) ==
    TurnEnd([hands EXCEPT ![player] = hand1], pool, nodes, state, current_chickie, rep)

\* the rest of the turn once the hand and the pool after the optional draw
\* are known
AfterDraw(player, hand1, pool, opportunities, pos, rep) ==
    IF opportunities # <<>>
    THEN Play(player, hand1, pool, opportunities, pos, rep)
    ELSE TurnEnd([hands EXCEPT ![player] = hand1], pool, nodes, state, current_chickie, rep)

\* one iteration of the turn loop of Game.run
Turn ==
    /\ pc = "turn"
    /\ LET player == players[turn]
           first == _opportunities(state, nodes, current_chickie, hands[player])
           started == <<turn_start(player, state)>>
       IN IF first.err # ""
          THEN Raise(first.err, hands, boneyard, nodes, state, current_chickie, started)
          ELSE IF first.val = <<>> /\ boneyard # <<>>
          THEN \E pos \in RandomValues(1 + PickCalls(kinds[player])) :
                  LET d == draw(boneyard, pos)
                      hand1 == add_tile(hands[player], d.tile)
                  IN AfterDraw(player, hand1, d.pool,
                               _opportunities(state, nodes, current_chickie, hand1).val,
                               d.pos, Append(started, draw_event(player, d.tile)))
          ELSE \E pos \in RandomValues(PickCalls(kinds[player])) :
                  AfterDraw(player, hands[player], boneyard, first.val, pos, started)
    /\ UNCHANGED <<set_size, required_root, starting_hand_size, kinds, players>>
    /\ UNCHANGED runner

Next == SetupPlayerHands \/ RootTileTurn \/ Turn

Spec == Init /\ [][Next]_vars

(* ------------------- Game.run on a set of MaxSetSize -------------------- *)
\* A game of MaxPlayers players over the double-MaxSetSize set, just after
\* _setup_player_hands has dealt TurnHandSize tiles to each.  The tiles came
\* out of the pool in the order DealOrder(start, stride): from tile `start`
\* of the set in steps of `stride`; the pool holds the tiles not dealt, in the
\* order of the set.  A root takes four arms before the state leaves ROOT, so
\* the states OPEN and CHICKIE need a set with four other pips.
DealOrder(tiles, start, stride) ==
    [i \in 1..Len(tiles) |-> tiles[((start + (i - 1) * stride) % Len(tiles)) + 1]]

\* the strides that take every tile of n exactly once
Strides(n) ==
    {s \in 1..MaxStride : \A i, j \in 0..(n - 1) : i # j => (i * s) % n # (j * s) % n}

TurnInit ==
    /\ pc = "rootfind"
    /\ set_size = MaxSetSize
    /\ required_root \in 0..set_size
    /\ starting_hand_size = TurnHandSize
    /\ players = [i \in 1..MaxPlayers |-> i]
    /\ kinds \in [Range(players) -> {RandomPlayer, MaxValuePlayer}]
    /\ LET tiles == NewBoneyard(set_size, 1)
           dealt == Len(players) * starting_hand_size
       IN \E start \in 0..Min(MaxStart, Len(tiles) - 1), stride \in Strides(Len(tiles)) :
             LET order == DealOrder(tiles, start, stride)
             IN /\ hands = [p \in Range(players) |->
                               SubSeq(order, (p - 1) * starting_hand_size + 1,
                                      p * starting_hand_size)]
                /\ boneyard = SelectSeq(tiles,
                                  LAMBDA t : \A k \in 1..dealt : order[k] # t)
    /\ nodes = <<>>
    /\ state = NoState
    /\ current_chickie = NoNode
    /\ turn = 1
    /\ scores = <<>>
    /\ err = ""
    /\ report = <<initial_hands>>
    /\ rounds = 0
    /\ games = <<>>
    /\ aggregate_scores = <<>>

TurnNext == RootTileTurn \/ Turn

SpecTurn == TurnInit /\ [][TurnNext]_vars

(* ------------------------------ GameRunner ------------------------------ *)
\* A GameRunner of up to MaxRounds rounds over a small set, just constructed:
\* the players have empty hands and totals of 0, no game has been made.
RunnerInit ==
    /\ pc = "runner"
    /\ rounds \in 0..MaxRounds
    /\ set_size \in 0..PlaySetSize
    /\ starting_hand_size \in 1..MaxHandSize
    /\ players \in {[i \in 1..n |-> i] : n \in 1..MaxPlayers}
    /\ kinds \in [Range(players) -> {RandomPlayer, MaxValuePlayer}]
    /\ hands = [p \in Range(players) |-> <<>>]
    /\ aggregate_scores = [p \in Range(players) |-> 0]
    /\ games = <<>>
    /\ required_root = 0
    /\ boneyard = <<>>
    /\ nodes = <<>>
    /\ state = NoState
    /\ current_chickie = NoNode
    /\ turn = 1
    /\ scores = <<>>
    /\ err = ""
    /\ report = <<>>

\* required_root_iterator.next(): 0 at first, then the successor of the last
\* value in the cycle 0, 1, ..., set_size
NextRequiredRoot(made, last, size) == IF made = 0 THEN 0 ELSE (last + 1) % (size + 1)

\* the head of one iteration of the loop of GameRunner.run: the next required
\* root and the construction of the Game on the shared players
NewGame ==
    /\ pc = "runner" /\ Len(games) < rounds
    /\ required_root' = NextRequiredRoot(Len(games), required_root, set_size)
    /\ boneyard' = NewBoneyard(set_size, Len(games) + 1)
    /\ nodes' = <<>>
    /\ state' = NoState
    /\ current_chickie' = NoNode
    /\ turn' = 1
    /\ scores' = <<>>
    /\ games' = Append(games, [required_root |-> required_root', scores |-> <<>>])
    /\ report' = <<>>
    /\ pc' = "deal"
    /\ UNCHANGED <<set_size, starting_hand_size, kinds, players, hands, err, rounds,
                   aggregate_scores>>

\* the totals that add the score of player order[p] to the total of player p
Aggregate_byseat(totals, order, sc) ==
    [p \in DOMAIN totals |-> totals[p] + sc[order[p]]]

\* for player in self.players: aggregate_scores[player] += game.scores[player]
Aggregate(totals, order, sc) ==
    [p \in DOMAIN totals |-> totals[p] + sc[p]]

\* the tail of the iteration, once game.run() has returned
AggregateScores ==
    /\ pc = "done" /\ games # <<>>
    /\ aggregate_scores' = Aggregate(aggregate_scores, players, scores)
    /\ games' = [games EXCEPT ![Len(games)].scores = scores]
    /\ pc' = "runner"
    /\ report' = <<>>
    /\ UNCHANGED <<set_size, required_root, starting_hand_size, kinds, players, hands,
                   boneyard, nodes, state, current_chickie, turn, scores, err, rounds>>

RunnerNext == NewGame \/ SetupPlayerHands \/ RootTileTurn \/ Turn \/ AggregateScores

SpecRunner == RunnerInit /\ [][RunnerNext]_vars

(* ------------------- _handle_play called on its own --------------------- *)
\* A game whose root has been seeded with the required double and whose state
\* is ROOT, on which _handle_play(tile, parent) is called with any tile and any
\* node of the board, as the unit tests of Game._handle_play do.
PlayTiles == Range(NewBoneyard(PlaySetSize, 1))

PlayInit ==
    /\ pc = "play"
    /\ set_size = PlaySetSize
    /\ required_root \in 0..set_size
    /\ starting_hand_size = 1
    /\ players = <<1>>
    /\ kinds = <<MaxValuePlayer>>
    /\ hands = <<<<>>>>
    /\ boneyard = NewBoneyard(set_size, 1)
    /\ nodes = <<Root(Tile(required_root, required_root, 1))>>
    /\ state = ROOT
    /\ current_chickie = NoNode
    /\ turn = 1
    /\ scores = <<>>
    /\ err = ""
    /\ report = <<>>
    /\ rounds = 0
    /\ games = <<>>
    /\ aggregate_scores = <<>>

HandlePlayCall ==
    /\ pc = "play"
    /\ Len(nodes) < MaxNodes
    /\ \E tile \in PlayTiles, parent \in 1..Len(nodes) :
          LET played == _handle_play(state, nodes, current_chickie, tile, parent)
          IN /\ nodes' = played.nodes
             /\ state' = played.state
             /\ current_chickie' = played.current_chickie
             /\ err' = played.err
    /\ UNCHANGED <<pc, set_size, required_root, starting_hand_size, kinds, players, hands,
                   boneyard, turn, scores, report>>
    /\ UNCHANGED runner

PlayNext == HandlePlayCall

SpecPlay == PlayInit /\ [][PlayNext]_vars

(* ---------------------- Node.add_child called on its own ---------------- *)
\* A tree that starts as a Root of a double or of another tile, on which
\* add_child is called with any tile of the set on any node, as the unit
\* tests of Node do; a call is made when the tree it leaves has at most
\* MaxTreeNodes nodes.
RootTiles == {Tile(0, b, 1) : b \in 0..PlaySetSize}

TreeInit ==
    /\ pc = "tree"
    /\ set_size = PlaySetSize
    /\ required_root = 0
    /\ starting_hand_size = 1
    /\ players = <<1>>
    /\ kinds = <<MaxValuePlayer>>
    /\ hands = <<<<>>>>
    /\ boneyard = NewBoneyard(set_size, 1)
    /\ nodes \in {<<Root(t)>> : t \in RootTiles}
    /\ state = NoState
    /\ current_chickie = NoNode
    /\ turn = 1
    /\ scores = <<>>
    /\ err = ""
    /\ report = <<>>
    /\ rounds = 0
    /\ games = <<>>
    /\ aggregate_scores = <<>>

AddChildCall ==
    /\ pc = "tree"
    /\ \E tile \in PlayTiles, parent \in 1..Len(nodes) :
          LET added == add_child(nodes, parent, tile)
          IN /\ Len(added.nodes) <= MaxTreeNodes
             /\ nodes' = added.nodes
             /\ err' = added.err
    /\ UNCHANGED <<pc, set_size, required_root, starting_hand_size, kinds, players, hands,
                   boneyard, state, current_chickie, turn, scores, report>>
    /\ UNCHANGED runner

TreeNext == AddChildCall

SpecTree == TreeInit /\ [][TreeNext]_vars

(* --------------------- Boneyard.draw called on its own ------------------ *)
\* A new Boneyard of any set size from which one player draws again and
\* again, keeping what draw() returns in the hand, until the pool is empty and
\* MaxExtraDraws more draws have been made.
DrawInit ==
    /\ pc = "draw"
    /\ set_size \in 0..DealSetSize
    /\ required_root = 0
    /\ starting_hand_size = 1
    /\ players = <<1>>
    /\ kinds = <<RandomPlayer>>
    /\ hands = <<<<>>>>
    /\ boneyard = NewBoneyard(set_size, 1)
    /\ nodes = <<>>
    /\ state = NoState
    /\ current_chickie = NoNode
    /\ turn = 1
    /\ scores = <<>>
    /\ err = ""
    /\ report = <<>>
    /\ rounds = 0
    /\ games = <<>>
    /\ aggregate_scores = <<>>

DrawCall ==
    /\ pc = "draw"
    /\ Len(hands[1]) < Len(NewBoneyard(set_size, 1)) + MaxExtraDraws
    /\ \E pos \in RandomValues(1) :
          LET d == draw(boneyard, pos)
          IN /\ hands' = [hands EXCEPT ![1] = add_tile(@, d.tile)]
             /\ boneyard' = d.pool
    /\ UNCHANGED <<pc, set_size, required_root, starting_hand_size, kinds, players, nodes,
                   state, current_chickie, turn, scores, err, report>>
    /\ UNCHANGED runner

DrawNext == DrawCall

SpecDraw == DrawInit /\ [][DrawNext]_vars

(* ------------------- Player methods called on their own ----------------- *)
\* One player of either class whose hand holds up to MaxHandSize + 1 entries:
\* distinct Tile objects with the ends in either order, among them a second
\* object with the ends (0, b) for every b, and absent entries.
\* One call of fetch_tile or pick_tile is made on it; `report` holds the
\* call, its arguments and the value it returned, `err` the error it raised.
HandTiles ==
    {Tile(a, b, 1) : a \in 0..PlaySetSize, b \in 0..PlaySetSize}
       \cup {Tile(0, b, 2) : b \in 0..PlaySetSize}

PlayerHands ==
    {h \in UNION {[1..n -> HandTiles \cup {None}] : n \in 0..(MaxHandSize + 1)} :
        \A i, j \in 1..Len(h) : (i # j /\ h[i] # None) => h[i] # h[j]}

\* the lists a caller can pass to pick_tile: tiles of the hand, each at most
\* once, in any order
OpportunityLists(hand) ==
    {o \in UNION {[1..n -> Range(hand) \ {None}] : n \in 1..Len(hand)} :
        \A i, j \in 1..Len(o) : i # j => o[i] # o[j]}

PlayerInit ==
    /\ pc = "player"
    /\ set_size = PlaySetSize
    /\ required_root = 0
    /\ starting_hand_size = 0
    /\ players = <<1>>
    /\ kinds \in {<<RandomPlayer>>, <<MaxValuePlayer>>}
    /\ hands \in {<<h>> : h \in PlayerHands}
    /\ boneyard = <<>>
    /\ nodes = <<>>
    /\ state = NoState
    /\ current_chickie = NoNode
    /\ turn = 1
    /\ scores = <<>>
    /\ err = ""
    /\ report = <<>>
    /\ rounds = 0
    /\ games = <<>>
    /\ aggregate_scores = <<>>

FetchTileCall ==
    /\ pc = "player" /\ report = <<>>
    /\ \E a, b \in 0..PlaySetSize :
          LET fetched == fetch_tile(hands[1], a, b)
          IN /\ hands' = <<fetched.hand>>
             /\ err' = fetched.err
             /\ report' = <<"fetch_tile", a, b, fetched.tile>>
    /\ UNCHANGED <<pc, set_size, required_root, starting_hand_size, kinds, players,
                   boneyard, nodes, state, current_chickie, turn, scores>>
    /\ UNCHANGED runner

PickTileCall ==
    /\ pc = "player" /\ report = <<>>
    /\ \E opportunities \in OpportunityLists(hands[1]),
          pos \in RandomValues(PickCalls(kinds[1])) :
          LET chosen == _pick_tile(kinds[1], opportunities, pos)
          IN /\ hands' = <<pick_tile(hands[1], chosen.tile)>>
             /\ err' = ""
             /\ report' = <<"pick_tile", opportunities, chosen.tile>>
    /\ UNCHANGED <<pc, set_size, required_root, starting_hand_size, kinds, players,
                   boneyard, nodes, state, current_chickie, turn, scores>>
    /\ UNCHANGED runner

PlayerNext == FetchTileCall \/ PickTileCall

SpecPlayer == PlayerInit /\ [][PlayerNext]_vars

(* ------------------------------ properties ------------------------------ *)
\* what a step attached, for steps that attach one tile to a seeded board
Attached == nodes # <<>> /\ Len(nodes') = Len(nodes) + 1
PlayedTile == nodes'[Len(nodes')].tile
GainedChild(i) == nodes'[i].children # nodes[i].children
IsLeaf(i) == nodes[i].children = <<>>

\* a tile that the rules of the current state allow to be played, stated on
\* the board itself
Playable(tile) ==
    IF state = CHICKIE THEN HasEnd(tile, nodes[current_chickie].tile[1])
    ELSE IF state = ROOT THEN HasEnd(tile, nodes[1].tile[1])
    ELSE \E i \in 1..Len(nodes) : IsLeaf(i) /\ HasEnd(tile, bottom(nodes[i]))

\* C1: no play of Game.run() raises NodeFullException, the mismatch
\* ValueError of add_child or the ValueError of find_attach_position, and in
\* every state of the turn loop every tile of every player's opportunities
\* attaches without error under the parent run() resolves for it.
C1_NoAttachErrors ==
    /\ err \notin {NodeFullException, MismatchError, NoAttachError}
    /\ pc = "turn" =>
          \A p \in DOMAIN hands :
             LET opps == _opportunities(state, nodes, current_chickie, hands[p])
             IN opps.err = "" =>
                   \A k \in 1..Len(opps.val) :
                      LET found == ResolveParent(state, nodes, current_chickie, opps.val[k])
                      IN /\ found.err = ""
                         /\ add_child(nodes, found.node, opps.val[k]).err = ""

\* a finished round that played in all three states: the root is full, a
\* chicken foot was completed and a tile hangs below an arm
C1_Witness ==
    /\ pc = "done" /\ err = ""
    /\ Len(nodes[1].children) = 4
    /\ \E i \in 2..Len(nodes) : is_double(nodes[i].tile) /\ Len(nodes[i].children) = 3
    /\ \E i \in 2..Len(nodes) : ~is_double(nodes[i].tile) /\ Len(nodes[i].children) = 1

\* the pool of a new game holds enough tiles for the deal
DealFits == Len(players) * starting_hand_size <= Len(NewBoneyard(set_size, 1))

\* C2: given a pool that held enough tiles for the deal, once the root is
\* established the turn loop is only ever left because the round-over check
\* returned true.
C2_TurnLoopEndsByRoundOver ==
    (DealFits /\ nodes # <<>> /\ pc # "turn") => (pc = "done" /\ err = "")

SomeHandEmpty == \E p \in DOMAIN hands : hands[p] = <<>>
HasNoOpportunity(p) ==
    \A i \in 1..Len(hands[p]) : hands[p][i] # None /\ ~Playable(hands[p][i])

\* C3: _round_over returns true exactly when some hand is empty, or else when
\* every player has zero opportunities and the pool is empty; with no empty
\* hand, no opportunity and tiles left in the pool it returns false.
C3_RoundOverExactly ==
    nodes # <<>> =>
       LET over == _round_over(state, nodes, current_chickie, players, hands, boneyard)
       IN /\ (over.err = "" /\ over.val)
                <=> (SomeHandEmpty
                     \/ ((\A p \in DOMAIN hands : HasNoOpportunity(p)) /\ boneyard = <<>>))
          /\ (~SomeHandEmpty /\ (\A p \in DOMAIN hands : HasNoOpportunity(p))
                /\ boneyard # <<>>) => (over.err = "" /\ ~over.val)

\* a round that ended in a stalemate: nobody can play, the pool is empty and
\* every player still holds tiles
C3_Witness ==
    /\ pc = "done" /\ ~SomeHandEmpty /\ boneyard = <<>>
    /\ Len(players) = 2
    /\ \A p \in DOMAIN hands : HasNoOpportunity(p)

\* C4: in state ROOT a non-double attach that leaves the root with fewer than
\* 4 children keeps the state ROOT, and the attach that gives the root its
\* 4th child makes the state OPEN with no chicken-foot node remembered.
C4_RootToOpen ==
    [][(state = ROOT /\ Attached) =>
          /\ (Len(nodes'[1].children) < 4 /\ ~is_double(PlayedTile)) => state' = ROOT
          /\ (Len(nodes'[1].children) = 4 /\ GainedChild(1))
                => (state' = OPEN /\ current_chickie' = NoNode)]_vars

\* four non-double arms were attached one after the other
C4_Witness ==
    /\ pc = "play" /\ state = OPEN /\ current_chickie = NoNode
    /\ Len(nodes) = 5 /\ Len(nodes[1].children) = 4
    /\ \A i \in 2..5 : ~is_double(nodes[i].tile)

\* C5: in state OPEN attaching a double makes the state CHICKIE and remembers
\* the node just created; attaching a non-double leaves the state OPEN and no
\* chicken-foot node remembered.
C5_OpenPlay ==
    [][(state = OPEN /\ Attached) =>
          IF is_double(PlayedTile)
          THEN state' = CHICKIE /\ current_chickie' = Len(nodes')
          ELSE state' = OPEN /\ current_chickie' = NoNode]_vars

\* four non-double arms, then a double attached in state OPEN
C5_Witness ==
    /\ pc = "play" /\ state = CHICKIE
    /\ Len(nodes) = 6 /\ current_chickie = 6 /\ Len(nodes[1].children) = 4
    /\ \A i \in 2..5 : ~is_double(nodes[i].tile)
    /\ is_double(nodes[6].tile)

\* C6: in state CHICKIE a non-double attached under the chicken-foot node
\* keeps the state and the remembered node while the node has fewer than 3
\* children; the attach of its 3rd child makes the state OPEN and clears the
\* remembered node.
C6_ChickiePlay ==
    [][(state = CHICKIE /\ Attached /\ ~is_double(PlayedTile)
          /\ GainedChild(current_chickie)) =>
          IF Len(nodes'[current_chickie].children) = 3
          THEN state' = OPEN /\ current_chickie' = NoNode
          ELSE state' = CHICKIE /\ current_chickie' = current_chickie]_vars

\* a chicken foot was completed before the root was full, so the state OPEN
\* can only come from the third child of the chicken foot
C6_Witness ==
    /\ pc = "play" /\ state = OPEN /\ current_chickie = NoNode
    /\ Len(nodes[1].children) < 4
    /\ \E i \in 2..Len(nodes) : is_double(nodes[i].tile) /\ Len(nodes[i].children) = 3

\* C7: in state ROOT a double that becomes the 4th child of the root makes
\* the state OPEN, not CHICKIE, and no chicken-foot node is remembered.
C7_RootBeforeDouble ==
    [][(state = ROOT /\ Attached /\ is_double(PlayedTile) /\ GainedChild(1)
          /\ Len(nodes'[1].children) = 4) =>
          (state' = OPEN /\ current_chickie' = NoNode)]_vars

\* three non-double arms, then a double as the 4th child of the root
C7_Witness ==
    /\ pc = "play" /\ state = OPEN /\ current_chickie = NoNode
    /\ Len(nodes) = 5 /\ nodes[1].children = <<2, 3, 4, 5>>
    /\ \A i \in 2..4 : ~is_double(nodes[i].tile)
    /\ is_double(nodes[5].tile)

\* C8: a tile played by run() in state CHICKIE becomes the last child of the
\* remembered chicken-foot node, a tile played in state ROOT the last child
\* of the root, and no other node gains a child; the remembered node stays
\* the same for as long as the state stays CHICKIE.
C8_PlaysUnderChickieOrRoot ==
    [][/\ (state \in {CHICKIE, ROOT} /\ Attached) =>
             LET parent == IF state = CHICKIE THEN current_chickie ELSE 1
             IN /\ nodes'[parent].children = Append(nodes[parent].children, Len(nodes'))
                /\ \A i \in 1..Len(nodes) : i # parent => nodes'[i] = nodes[i]
       /\ (state = CHICKIE /\ state' = CHICKIE) => current_chickie' = current_chickie
      ]_vars

\* two tiles have been played under the open chicken foot of a run
C8_Witness ==
    /\ pc = "turn" /\ state = CHICKIE
    /\ Len(nodes[current_chickie].children) = 2

IsRootOpportunity(tile) == tile # None /\ HasEnd(tile, nodes[1].tile[1])
IsChickieOpportunity(tile) == tile # None /\ HasEnd(tile, nodes[current_chickie].tile[1])
MatchesOtherLeaf(tile, pip) ==
    /\ tile # None /\ ~HasEnd(tile, pip)
    /\ \E i \in 1..Len(nodes) : IsLeaf(i) /\ HasEnd(tile, bottom(nodes[i]))

\* C9: in state ROOT the opportunities of a player are the hand tiles that
\* have the first pip of the root tile on one end, each once, in hand order;
\* a tile that only matches the bottom of a leaf is not among them.
C9_RootOpportunities ==
    state = ROOT =>
       \A p \in DOMAIN hands :
          LET opps == _opportunities(state, nodes, current_chickie, hands[p])
              wanted == {i \in 1..Len(hands[p]) : IsRootOpportunity(hands[p][i])}
          IN opps.err = "" =>
                /\ Len(opps.val) = Cardinality(wanted)
                /\ \A k \in 1..Len(opps.val) :
                      \E i \in wanted :
                         /\ hands[p][i] = opps.val[k]
                         /\ Cardinality({j \in wanted : j < i}) = k - 1

\* state ROOT with a hand that holds an arm for the root next to a tile that
\* only matches the bottom of a leaf
C9_Witness ==
    /\ pc = "turn" /\ state = ROOT
    /\ \E p \in DOMAIN hands :
          /\ \E i \in 1..Len(hands[p]) : IsRootOpportunity(hands[p][i])
          /\ \E i \in 1..Len(hands[p]) : MatchesOtherLeaf(hands[p][i], nodes[1].tile[1])

\* C10: in state CHICKIE the opportunities of a player are the hand tiles
\* that have the first pip of the chicken-foot tile on one end, each once, in
\* hand order; a tile that only matches another open end is not among them.
C10_ChickieOpportunities ==
    state = CHICKIE =>
       \A p \in DOMAIN hands :
          LET opps == _opportunities(state, nodes, current_chickie, hands[p])
              wanted == {i \in 1..Len(hands[p]) : IsChickieOpportunity(hands[p][i])}
          IN opps.err = "" =>
                /\ Len(opps.val) = Cardinality(wanted)
                /\ \A k \in 1..Len(opps.val) :
                      \E i \in wanted :
                         /\ hands[p][i] = opps.val[k]
                         /\ Cardinality({j \in wanted : j < i}) = k - 1

\* state CHICKIE with a hand that holds a tile for the chicken foot next to a
\* tile that only matches another leaf of the board
C10_Witness ==
    /\ pc = "turn" /\ state = CHICKIE
    /\ \E p \in DOMAIN hands :
          /\ \E i \in 1..Len(hands[p]) : IsChickieOpportunity(hands[p][i])
          /\ \E i \in 1..Len(hands[p]) :
                MatchesOtherLeaf(hands[p][i], nodes[current_chickie].tile[1])

top(n) == IF n.orientation = NORMAL THEN n.tile[1] ELSE n.tile[2]
IsOpenOpportunity(tile) ==
    tile # None /\ \E i \in 1..Len(nodes) : IsLeaf(i) /\ HasEnd(tile, bottom(nodes[i]))
MatchesOnlyTop(tile) ==
    /\ tile # None /\ ~IsOpenOpportunity(tile)
    /\ \E i \in 2..Len(nodes) : IsLeaf(i) /\ HasEnd(tile, top(nodes[i]))

\* C11: in state OPEN the opportunities of a player are the hand tiles that
\* have the bottom value of some current leaf on one end, each once, in hand
\* order; a tile that matches only the root-facing end of a leaf tile is not
\* among them.
C11_OpenOpportunities ==
    state = OPEN =>
       \A p \in DOMAIN hands :
          LET opps == _opportunities(state, nodes, current_chickie, hands[p])
              wanted == {i \in 1..Len(hands[p]) : IsOpenOpportunity(hands[p][i])}
          IN opps.err = "" =>
                /\ Len(opps.val) = Cardinality(wanted)
                /\ \A k \in 1..Len(opps.val) :
                      \E i \in wanted :
                         /\ hands[p][i] = opps.val[k]
                         /\ Cardinality({j \in wanted : j < i}) = k - 1
                /\ \A i \in 1..Len(hands[p]) :
                      MatchesOnlyTop(hands[p][i]) => hands[p][i] \notin Range(opps.val)

\* state OPEN with a hand that holds a tile for the bottom of a leaf next to
\* a tile that only matches the root-facing end of a leaf tile
C11_Witness ==
    /\ pc = "turn" /\ state = OPEN
    /\ \E p \in DOMAIN hands :
          /\ \E i \in 1..Len(hands[p]) : IsOpenOpportunity(hands[p][i])
          /\ \E i \in 1..Len(hands[p]) : MatchesOnlyTop(hands[p][i])

\* the one tile a step took from the pool
DrawnTile == CHOOSE t \in Range(boneyard) : t \notin Range(boneyard')

\* C12: in one turn of run() the player draws at most one tile, and only when
\* they had no opportunity at the start of the turn and the pool was not
\* empty; if they have an opportunity at the start or after that draw, exactly
\* one tile goes from their hand to the board; otherwise nothing is played and
\* the board and the game state are as before the turn.
C12_TurnDrawsOncePlaysOnce ==
    [][pc = "turn" =>
          LET p == players[turn]
              first == _opportunities(state, nodes, current_chickie, hands[p])
              drew == boneyard' # boneyard
              hand1 == IF drew THEN Append(hands[p], DrawnTile) ELSE hands[p]
              opps == _opportunities(state, nodes, current_chickie, hand1)
          IN /\ Len(boneyard) - Len(boneyard') \in {0, 1}
             /\ Range(boneyard') \subseteq Range(boneyard)
             /\ drew => (first.err = "" /\ first.val = <<>> /\ boneyard # <<>>)
             /\ \A q \in DOMAIN hands : q # p => hands'[q] = hands[q]
             /\ IF opps.err = "" /\ opps.val # <<>>
                THEN /\ Len(nodes') = Len(nodes) + 1
                     /\ PlayedTile \in Range(opps.val)
                     /\ hands'[p] = ListRemove(hand1, PlayedTile)
                ELSE /\ nodes' = nodes /\ state' = state
                     /\ current_chickie' = current_chickie
                     /\ hands'[p] = hand1
      ]_vars

\* a turn in which the player had nothing to play, drew a tile and played
C12_Witness ==
    /\ pc \in {"turn", "done"} /\ err = ""
    /\ Len(report) = 3
    /\ report[1][1] = "turn_start" /\ report[2][1] = "draw" /\ report[3][1] = "play"

RequiredDouble == <<required_root, required_root>>
\* player p holds a tile with the ends e
Holds(p, e) == \E i \in 1..Len(hands[p]) : hands[p][i] # None /\ ends_of(hands[p][i]) = e
\* the position of the first tile with the ends e in a hand
FirstWithEnds(hand, e) ==
    CHOOSE i \in 1..Len(hand) :
       /\ hand[i] # None /\ ends_of(hand[i]) = e
       /\ \A k \in 1..(i - 1) : hand[k] = None \/ ends_of(hand[k]) # e
\* the players that hold the required double, as positions in the current order
Holders == {i \in 1..Len(players) : Holds(players[i], RequiredDouble)}

\* C13: when some player holds the double (required_root, required_root) at
\* an invocation of _root_tile_turn, the tile leaves the hand of the first
\* such player in the current order and becomes the tile of a new Root with
\* NORMAL orientation, capacity 4 and no children; nobody draws, and every
\* other hand and the pool are unchanged.
C13_RootFound ==
    [][(pc = "rootfind" /\ Holders # {}) =>
          LET i == CHOOSE k \in Holders : \A m \in Holders : k <= m
              p == players[i]
              at == FirstWithEnds(hands[p], RequiredDouble)
          IN /\ nodes' = <<[tile |-> hands[p][at], max_children |-> 4,
                            orientation |-> NORMAL, children |-> <<>>]>>
             /\ hands'[p] = RemoveAt(hands[p], at)
             /\ \A q \in DOMAIN hands : q # p => hands'[q] = hands[q]
             /\ boneyard' = boneyard
      ]_vars

\* the root was seeded by the second of two players, who keeps other tiles
C13_Witness ==
    /\ pc = "turn" /\ Len(report) = 2 /\ report[1][1] = "root_found"
    /\ Len(players) = 2 /\ report[1][2] = 2
    /\ Len(nodes) = 1 /\ ends_of(nodes[1].tile) = RequiredDouble /\ nodes[1].children = <<>>
    /\ hands[2] # <<>>

\* C14: when the root tile is found the player list becomes a permutation of
\* the same players with the holder last; the turn loop then takes the
\* players cyclically in that fixed order, starting with the first of the
\* list, so with two or more players the first turn after the root is placed
\* is taken by a player other than the holder.
C14_TurnOrder ==
    [][/\ (pc = "rootfind" /\ pc' = "turn") =>
             LET i == CHOOSE k \in Holders : \A m \in Holders : k <= m
                 n == Len(players)
             IN /\ Len(players') = n /\ Range(players') = Range(players)
                /\ players'[n] = players[i]
                /\ turn' = 1
                /\ n >= 2 => players'[turn'] # players[i]
       /\ pc = "turn" =>
             /\ players' = players
             /\ report'[1] = <<"turn_start", players[turn], state>>
             /\ \A q \in DOMAIN hands : q # players[turn] => hands'[q] = hands[q]
             /\ pc' = "turn" => turn' = (turn % Len(players)) + 1
      ]_vars

\* the first of two players showed the root tile and was moved to the end;
\* the turn order has since come round to its start again
C14_Witness ==
    /\ pc = "turn" /\ players = <<2, 1>> /\ turn = 1
    /\ Len(report) >= 1 /\ report[1][1] = "turn_start" /\ report[1][2] = 1
    /\ Len(nodes) >= 3

NoAbsentEntry == \A p \in DOMAIN hands : ~HasNone(hands[p])

\* C15: when no player holds the required double at an invocation of
\* _root_tile_turn, the root stays absent and every player draws once in
\* player order: each draw from a non-empty pool moves one tile from the pool
\* to that player's hand, and a draw from an empty pool adds nothing to the
\* player's hand.
C15_RootNotFoundDraws ==
    [][(pc = "rootfind" /\ Holders = {} /\ NoAbsentEntry) =>
          LET served == Min(Len(players), Len(boneyard))
          IN /\ nodes' = <<>> /\ pc' = "rootfind"
             /\ Len(boneyard') = Len(boneyard) - served
             /\ Range(boneyard') \subseteq Range(boneyard)
             /\ \A i \in 1..Len(players) :
                   LET p == players[i]
                   IN IF i <= served
                      THEN /\ Len(hands'[p]) = Len(hands[p]) + 1
                           /\ SubSeq(hands'[p], 1, Len(hands[p])) = hands[p]
                           /\ hands'[p][Len(hands'[p])] \in Range(boneyard) \ Range(boneyard')
                      ELSE hands'[p] = hands[p]
      ]_vars

RECURSIVE TilesHeld(_)
\* the number of hand entries of the players in the sequence order
TilesHeld(order) ==
    IF order = <<>> THEN 0 ELSE Len(hands[Head(order)]) + TilesHeld(Tail(order))

\* C16: the loop of run() that repeats _root_tile_turn ends after finitely
\* many invocations without raising and with the root holding the double
\* (required_root, required_root): no invocation raises, and each one either
\* establishes that root or leaves the root absent and takes at least one
\* tile from the finite pool.
C16_RootFindingEnds ==
    [][pc = "rootfind" =>
          /\ err' = "" /\ pc' \in {"rootfind", "turn"}
          /\ pc' = "turn" => (Len(nodes') = 1 /\ ends_of(nodes'[1].tile) = RequiredDouble)
          /\ pc' = "rootfind" => (nodes' = <<>> /\ Len(boneyard') < Len(boneyard))
      ]_vars

\* the root was found after at least two invocations in which everybody drew
C16_Witness ==
    /\ pc = "turn" /\ Len(report) = 2 /\ report[1][1] = "root_found"
    /\ ends_of(nodes[1].tile) = RequiredDouble
    /\ TilesHeld(players) + 1 >= Len(players) * starting_hand_size + 2 * Len(players)

\* C17: as soon as some player's hand is empty the round ends: from then on no
\* tile is drawn from the pool and no tile is attached to the board, also
\* when the hand was emptied by giving up the root tile during root-finding.
C17_EmptyHandEndsRound ==
    [][(pc = "turn" /\ SomeHandEmpty) => (boneyard' = boneyard /\ nodes' = nodes)]_vars

\* the scoring value of a tile as the rules give it
Pips(t) == IF ends_of(t) = <<0, 0>> THEN 50 ELSE t[1] + t[2]
RECURSIVE PipsUpTo(_, _)
\* the sum of the scoring values of the first k tiles of a hand
PipsUpTo(hand, k) == IF k = 0 THEN 0 ELSE PipsUpTo(hand, k - 1) + Pips(hand[k])

\* C18: after run() returns, scores has exactly one entry per player, equal
\* to the sum over the tiles left in that player's hand of a+b, with 50 for
\* the tile (0,0); so a player's score is 0 exactly when their hand is empty.
C18_Scores ==
    pc = "done" =>
       /\ DOMAIN scores = Range(players)
       /\ \A p \in Range(players) :
             /\ scores[p] = PipsUpTo(hands[p], Len(hands[p]))
             /\ scores[p] = 0 <=> hands[p] = <<>>

\* a finished round of two players: one went out and scores 0, the other is
\* left with the double blank among several tiles
C18_Witness ==
    /\ pc = "done" /\ Len(players) = 2
    /\ \E p, q \in Range(players) :
          /\ hands[p] = <<>> /\ scores[p] = 0
          /\ Len(hands[q]) >= 2 /\ Holds(q, <<0, 0>>) /\ scores[q] > 50

\* C19: a new Boneyard of set size S holds (S+1)(S+2)/2 tiles, one for each
\* pair 0 <= a <= b <= S and none twice; repeated draw() returns each of them
\* exactly once and then the absent value on every further call, leaving the
\* empty pool as it is.
C19_BoneyardDrains ==
    pc = "draw" =>
       LET full == NewBoneyard(set_size, 1)
           total == ((set_size + 1) * (set_size + 2)) \div 2
           drawn == hands[1]
           got == Min(Len(drawn), total)
       IN /\ Len(full) = total
          /\ {ends_of(full[k]) : k \in 1..total} =
                {e \in (0..set_size) \X (0..set_size) : e[1] <= e[2]}
          /\ Cardinality(Range(full)) = total
          /\ \A k \in 1..Len(drawn) :
                IF k <= total THEN drawn[k] \in Range(full) ELSE drawn[k] = None
          /\ \A j, k \in 1..got : j # k => drawn[j] # drawn[k]
          /\ Len(boneyard) = total - got
          /\ Range(boneyard) = Range(full) \ {drawn[k] : k \in 1..got}
          /\ \A j, k \in 1..Len(boneyard) : j # k => boneyard[j] # boneyard[k]

\* a pool of six or more tiles was drained in an order other than the order
\* of the pool, and two more draws returned the absent value
C19_Witness ==
    /\ pc = "draw" /\ set_size >= 2 /\ boneyard = <<>>
    /\ Len(hands[1]) = Len(NewBoneyard(set_size, 1)) + 2
    /\ hands[1][Len(hands[1])] = None /\ hands[1][Len(hands[1]) - 1] = None
    /\ hands[1][1] # NewBoneyard(set_size, 1)[1]

\* the number of children the rules allow node i of the board
Capacity(i) == IF i = 1 THEN 4 ELSE IF nodes[i].tile[1] = nodes[i].tile[2] THEN 3 ELSE 1

\* C20: add_child succeeds on a node that has fewer than max_children children
\* (given a tile that matches) and raises NodeFullException once it has
\* max_children, where max_children is 4 for a Root, 3 for a node made from a
\* double and 1 for any other node; so no node ever has more than
\* max_children children and a Root accepts exactly 4.
C20_AddChildCapacity ==
    pc = "tree" =>
       /\ \A i \in 1..Len(nodes) :
             /\ nodes[i].max_children = Capacity(i)
             /\ Len(nodes[i].children) <= Capacity(i)
       /\ \A parent \in 1..Len(nodes), tile \in PlayTiles :
             LET added == add_child(nodes, parent, tile)
             IN IF Len(nodes[parent].children) = Capacity(parent)
                THEN added.err = NodeFullException /\ added.nodes = nodes
                ELSE /\ added.err # NodeFullException
                     /\ HasEnd(tile, bottom(nodes[parent])) =>
                           /\ added.err = ""
                           /\ Len(added.nodes[parent].children)
                                 = Len(nodes[parent].children) + 1

\* the root took four children and the call that offered it a fifth raised
\* NodeFullException
C20_Witness ==
    /\ pc = "tree" /\ Len(nodes) = 5 /\ Len(nodes[1].children) = 4
    /\ err = NodeFullException

\* the node whose child list holds node i
ParentOf(i) == CHOOSE j \in 1..Len(nodes) : \E k \in 1..Len(nodes[j].children) :
                                               nodes[j].children[k] = i
\* the two ends of the tile of node i: the one turned to the parent and the
\* one turned away from it
FacingEnd(i) == IF nodes[i].orientation = NORMAL THEN nodes[i].tile[1] ELSE nodes[i].tile[2]
AwayEnd(i) == IF nodes[i].orientation = NORMAL THEN nodes[i].tile[2] ELSE nodes[i].tile[1]

\* C21: add_child on a node with room raises ValueError when neither end of
\* the tile equals the parent's bottom; otherwise the new child is NORMAL when
\* the parent's bottom equals the tile's first pip and INVERTED otherwise. So
\* in every tree built by add_child the end of a non-root node that faces its
\* parent equals the parent's bottom, and its own bottom is the other end.
C21_AddChildOrientation ==
    pc = "tree" =>
       /\ \A parent \in 1..Len(nodes), tile \in PlayTiles :
             LET added == add_child(nodes, parent, tile)
                 room == Len(nodes[parent].children) < nodes[parent].max_children
                 pips == AwayEnd(parent)
             IN room =>
                   IF tile[1] # pips /\ tile[2] # pips
                   THEN added.err = MismatchError /\ added.nodes = nodes
                   ELSE /\ added.err = ""
                        /\ added.nodes[added.child].tile = tile
                        /\ added.nodes[added.child].orientation
                              = IF pips = tile[1] THEN NORMAL ELSE INVERTED
       /\ \A i \in 2..Len(nodes) :
             /\ FacingEnd(i) = AwayEnd(ParentOf(i))
             /\ bottom(nodes[i]) = AwayEnd(i)
             /\ {FacingEnd(i), AwayEnd(i)} = {nodes[i].tile[1], nodes[i].tile[2]}

\* a tree with an INVERTED node that has a child of its own, after a call
\* that raised the ValueError of a mismatch
C21_Witness ==
    /\ pc = "tree" /\ err = MismatchError
    /\ \E i \in 2..Len(nodes) :
          /\ nodes[i].orientation = INVERTED /\ nodes[i].children # <<>>
          /\ nodes[i].tile[1] # nodes[i].tile[2]

RECURSIVE PathOf(_)
\* the positions, among its siblings, of the nodes on the way from the root
\* down to node i
PathOf(i) ==
    IF i = 1 THEN <<>>
    ELSE LET parent == ParentOf(i)
         IN Append(PathOf(parent), FirstIndex(nodes[parent].children, i))

\* path p comes before path q in a depth-first walk that takes the children
\* of a node from the first added to the last
Before(p, q) ==
    \E k \in 1..Min(Len(p), Len(q)) :
       /\ p[k] < q[k]
       /\ \A j \in 1..(k - 1) : p[j] = q[j]

\* C22: root.leaves yields exactly the nodes without children, each once,
\* in depth-first order with the children of a node taken in the order they
\* were added; on a tree that is only the root it yields the root alone.
\* Before is a strict order, so comparing neighbours orders the whole
\* sequence and rules out a node yielded twice.
C22_LeavesDepthFirst ==
    pc = "tree" =>
       LET ls == leaves(nodes, 1)
       IN /\ Range(ls) = {i \in 1..Len(nodes) : nodes[i].children = <<>>}
          /\ \A k \in 1..(Len(ls) - 1) : Before(PathOf(ls[k]), PathOf(ls[k + 1]))
          /\ Len(nodes) = 1 => ls = <<1>>

C22_Witness ==
    /\ pc = "tree"
    /\ \E k, l \in 1..Len(leaves(nodes, 1)) :
          /\ k < l
          /\ leaves(nodes, 1)[k] > leaves(nodes, 1)[l]
          /\ Len(PathOf(leaves(nodes, 1)[k])) > Len(PathOf(leaves(nodes, 1)[l]))

\* the childless nodes of the tree whose bottom is an end of the tile
MatchingLeaves(tile) ==
    {i \in 1..Len(nodes) : nodes[i].children = <<>> /\ HasEnd(tile, bottom(nodes[i]))}

\* C23: find_attach_position(tile) on the root returns the first node, in
\* the depth-first order of the leaves, whose bottom is an end of the tile;
\* it raises the ValueError exactly when no leaf has such a bottom; the node
\* returned has no children.
C23_FindAttachPosition ==
    pc = "tree" =>
       \A tile \in PlayTiles :
          LET found == find_attach_position(nodes, tile)
          IN IF MatchingLeaves(tile) = {}
             THEN found.err = NoAttachError
             ELSE /\ found.err = ""
                  /\ found.node \in MatchingLeaves(tile)
                  /\ nodes[found.node].children = <<>>
                  /\ \A i \in MatchingLeaves(tile) \ {found.node} :
                        Before(PathOf(found.node), PathOf(i))

C23_Witness ==
    /\ pc = "tree"
    /\ \E tile \in PlayTiles : find_attach_position(nodes, tile).err = NoAttachError
    /\ \E tile \in PlayTiles :
          /\ Cardinality(MatchingLeaves(tile)) > 1
          /\ \E i \in MatchingLeaves(tile) : i < find_attach_position(nodes, tile).node

\* the call made on the player by the step, for steps of a player called on
\* its own
Called(name) == pc = "player" /\ report' # <<>> /\ report'[1] = name
Without(hand, i) == SubSeq(hand, 1, i - 1) \o SubSeq(hand, i + 1, Len(hand))

\* C24: fetch_tile(a, b) removes from the hand and returns the first hand
\* tile whose ends are {a, b} in either order, the other hand entries and
\* their order staying as they are; when no hand tile matches, it returns
\* the absent value and the hand is unchanged.  (On a hand that holds an
\* absent entry ahead of any match the call raises and returns nothing.)
C24_FetchTile ==
    [][Called("fetch_tile") =>
          LET hand == hands[1]
              a == report'[2]
              b == report'[3]
              returned == report'[4]
              Matches(i) == hand[i] # None /\ {hand[i][1], hand[i][2]} = {a, b}
              matching == {i \in 1..Len(hand) : Matches(i)}
          IN /\ ~HasNone(hand) => err' = ""
             /\ err' = "" =>
                   IF matching = {}
                   THEN returned = None /\ hands'[1] = hand
                   ELSE \E i \in matching :
                           /\ \A k \in matching : i <= k
                           /\ returned = hand[i]
                           /\ hands'[1] = Without(hand, i)]_vars

C24_Witness ==
    /\ pc = "player" /\ report # <<>> /\ report[1] = "fetch_tile" /\ err = ""
    /\ report[2] # report[3]
    /\ report[4] # None /\ ends_of(report[4]) = <<report[3], report[2]>>
    /\ Len(hands[1]) >= 2 /\ ~HasNone(hands[1])

\* C25: for a non-empty list of opportunities that are all in the hand,
\* pick_tile returns a member of the list and removes exactly that tile
\* from the hand; every other hand entry stays, in the same order.
C25_PickTile ==
    [][Called("pick_tile") =>
          LET hand == hands[1]
              opportunities == report'[2]
              returned == report'[3]
          IN /\ err' = ""
             /\ returned \in Range(opportunities)
             /\ \E i \in 1..Len(hand) :
                   /\ hand[i] = returned
                   /\ hands'[1] = Without(hand, i)]_vars

\* the tile picked was the later of two Tile objects with the same ends: the
\* earlier one is still the first entry of the hand
C25_Witness ==
    /\ pc = "player" /\ report # <<>> /\ report[1] = "pick_tile"
    /\ kinds[1] = RandomPlayer
    /\ Len(report[2]) >= 2 /\ report[3] # report[2][1]
    /\ Len(hands[1]) >= 2 /\ hands[1][1] = report[2][1]
    /\ ends_of(hands[1][1]) = ends_of(report[3])

\* C26: from any non-empty list of opportunities MaxValuePlayer picks a tile
\* whose scoring value is the largest of the list, the double blank counting
\* 50, and of several tiles of that value the one that comes first in the
\* list.
C26_MaxValuePick ==
    (pc = "player" /\ report # <<>> /\ report[1] = "pick_tile"
        /\ kinds[1] = MaxValuePlayer) =>
       LET opportunities == report[2]
           returned == report[3]
           Worth(tile) == IF ends_of(tile) = <<0, 0>> THEN 50 ELSE tile[1] + tile[2]
       IN \E k \in 1..Len(opportunities) :
             /\ returned = opportunities[k]
             /\ \A m \in 1..Len(opportunities) :
                   Worth(opportunities[m]) <= Worth(returned)
             /\ \A m \in 1..(k - 1) : Worth(opportunities[m]) < Worth(returned)

C26_Witness ==
    /\ pc = "player" /\ report # <<>> /\ report[1] = "pick_tile"
    /\ kinds[1] = MaxValuePlayer
    /\ report[3] = report[2][1]
    /\ \E m \in 2..Len(report[2]) : value(report[2][m]) = value(report[3])

RECURSIVE TotalOf(_, _)
\* what player p scored in the first n games of the runner
TotalOf(p, n) == IF n = 0 THEN 0 ELSE TotalOf(p, n - 1) + games[n].scores[p]

\* run() of the GameRunner has returned
RunnerReturned == pc = "runner" /\ Len(games) = rounds

\* C27: GameRunner.run() with N rounds and set size S makes exactly N games,
\* the game of round i (from 0) with required root i mod (S + 1), and the
\* total of every player is the sum of that player's scores over the games
\* run, whatever the order the games have left the shared player list in.
C27_RunnerRounds ==
    pc \in {"runner", "deal", "rootfind", "turn", "done"} /\ aggregate_scores # <<>> =>
       /\ Len(games) <= rounds
       /\ \A i \in 1..Len(games) : games[i].required_root = (i - 1) % (set_size + 1)
       /\ pc # "runner" => required_root = games[Len(games)].required_root
       /\ pc = "runner" =>
             \A p \in Range(players) : aggregate_scores[p] = TotalOf(p, Len(games))
       /\ pc = "runner" /\ ~ENABLED NewGame => Len(games) = rounds

C27_Witness ==
    /\ RunnerReturned /\ rounds > set_size + 1 /\ set_size > 0
    /\ players # [i \in 1..Len(players) |-> i]
    /\ \E p, q \in Range(players) :
          /\ aggregate_scores[p] # aggregate_scores[q]
          /\ \E i, j \in 1..Len(games) :
                i # j /\ games[i].scores[p] > 0 /\ games[j].scores[p] > 0

RECURSIVE HeldBy(_)
\* the hand entries of the players in the sequence order, one hand after
\* the other
HeldBy(order) == IF order = <<>> THEN <<>> ELSE hands[Head(order)] \o HeldBy(Tail(order))

\* the deal of a game has just been made
JustDealt == pc = "rootfind" /\ report = <<initial_hands>>

\* C28: in every round run by the GameRunner, the first and the later ones,
\* right after the deal (of a set large enough for it) each player holds
\* exactly starting_hand_size tiles, all of them from the fresh pool of that
\* round: the hands and the pool together are the tiles of the set, each
\* once, and nothing of the round before is left in a hand.
C28_DealRefillsHands ==
    (games # <<>> /\ JustDealt /\ DealFits) =>
       /\ \A p \in Range(players) :
             Len(hands[p]) = starting_hand_size /\ ~HasNone(hands[p])
       /\ LET all == HeldBy(players) \o boneyard
          IN /\ Len(all) = Len(NewBoneyard(set_size, Len(games)))
             /\ Range(all) = Range(NewBoneyard(set_size, Len(games)))

\* the tiles of the round wherever they are: in the hands (an absent entry
\* is no tile), in the pool and on the board
TilesInPlay ==
    SelectSeq(HeldBy(players), LAMBDA entry : entry # None)
       \o boneyard \o [i \in 1..Len(nodes) |-> nodes[i].tile]

\* C30: in a run() started with empty hands on a set large enough for the
\* deal, after every step (deal, root-finding invocation, turn) the tiles in
\* the pool, in the hands and on the board are pairwise distinct pip pairs
\* and together exactly the (S+1)(S+2)/2 tiles of the set: none is lost and
\* none is duplicated.
C30_TilesConserved ==
    DealFits /\ games = <<>> /\ pc \in {"deal", "rootfind", "turn", "done", "crashed"} =>
       LET tiles == TilesInPlay
       IN /\ Len(tiles) = ((set_size + 1) * (set_size + 2)) \div 2
          /\ Cardinality({ends_of(tiles[k]) : k \in 1..Len(tiles)}) = Len(tiles)
          /\ {ends_of(tiles[k]) : k \in 1..Len(tiles)} =
                {e \in (0..set_size) \X (0..set_size) : e[1] <= e[2]}

C30_Witness ==
    /\ DealFits /\ pc = "turn" /\ Len(nodes) >= 3 /\ boneyard # <<>>
    /\ \A p \in Range(players) : hands[p] # <<>>
    /\ \E k \in 1..Len(report) : report[k][1] = "draw"
    /\ \E k \in 1..Len(report) : report[k][1] = "play"

\* C31: in every state of Game.run() every entry of every hand is a tile:
\* the absent value that draw() returns on an empty pool is never stored in
\* a hand, neither by the deal, nor by the draws of root-finding, nor by the
\* draw of a turn.
C31_HandsHoldTiles ==
    pc \in {"deal", "rootfind", "turn", "done", "crashed"} => NoAbsentEntry

\* C32: in every state that calls of _handle_play reach from the state ROOT
\* with no chicken-foot node remembered, a node is remembered exactly when
\* the state is CHICKIE, and the node remembered in state CHICKIE holds a
\* double and has fewer than 3 children.
C32_ChickieRemembered ==
    pc = "play" =>
       /\ current_chickie # NoNode <=> state = CHICKIE
       /\ state = CHICKIE =>
             /\ current_chickie \in 1..Len(nodes)
             /\ nodes[current_chickie].tile[1] = nodes[current_chickie].tile[2]
             /\ Len(nodes[current_chickie].children) < 3

\* a chicken foot opened under a node other than the root, two of its toes
\* attached
C32_Witness ==
    /\ pc = "play" /\ state = CHICKIE /\ err = ""
    /\ current_chickie \notin Range(nodes[1].children)
    /\ Len(nodes[current_chickie].children) = 2

\* the root of the board has as many children as the state says: all 4 in
\* OPEN and CHICKIE, fewer in ROOT
RootArmsFit(st, ns) ==
    /\ st \in {OPEN, CHICKIE} => Len(ns[1].children) = 4
    /\ st = ROOT => Len(ns[1].children) < 4

\* C33: in a run() started with empty hands, whenever the state is OPEN or
\* CHICKIE the root has exactly 4 children, whenever it is ROOT the root has
\* fewer than 4, and a state that has left ROOT never becomes ROOT again.
C33_RootArms ==
    [][(games = <<>> /\ pc \in {"deal", "rootfind", "turn"}) =>
          /\ RootArmsFit(state, nodes)
          /\ RootArmsFit(state', nodes')
          /\ state \in {OPEN, CHICKIE} => state' \in {OPEN, CHICKIE}]_vars

\* the root was closed and a chicken foot has been opened since
C33_Witness ==
    /\ pc = "turn" /\ games = <<>> /\ state = CHICKIE
    /\ Len(nodes[1].children) = 4
    /\ Len(nodes[current_chickie].children) > 0

\* the nodes below the root that hold a double
DoubleNodes == {i \in 2..Len(nodes) : nodes[i].tile[1] = nodes[i].tile[2]}

\* C34: in a run() started with empty hands, whenever the state is OPEN every
\* node of the board other than the root that holds a double has exactly 3
\* children: no chicken foot is left partly filled while free play is allowed.
C34_OpenFeetClosed ==
    (games = <<>> /\ pc \in {"turn", "done", "crashed"} /\ state = OPEN) =>
       \A i \in DoubleNodes : Len(nodes[i].children) = 3

\* free play after a chicken foot has been opened and closed
C34_Witness ==
    /\ games = <<>> /\ pc = "turn" /\ state = OPEN
    /\ DoubleNodes # {}

\* C35: the board tree only grows during a round: once set, the root tile
\* never changes; every node of one state is a node of the next with the
\* same tile, orientation and capacity; and the child list of a node only
\* grows, by appending at its end.
C35_TreeAppendOnly ==
    [][(games = <<>> /\ pc \in {"rootfind", "turn"} /\ nodes # <<>>) =>
          /\ Len(nodes') >= Len(nodes)
          /\ nodes'[1].tile = nodes[1].tile
          /\ \A i \in 1..Len(nodes) :
                /\ nodes'[i].tile = nodes[i].tile
                /\ nodes'[i].orientation = nodes[i].orientation
                /\ nodes'[i].max_children = nodes[i].max_children
                /\ Len(nodes'[i].children) >= Len(nodes[i].children)
                /\ SubSeq(nodes'[i].children, 1, Len(nodes[i].children))
                      = nodes[i].children]_vars

\* a board on which the root and a node below it have both taken children
\* after other nodes had been made
C35_Witness ==
    /\ games = <<>> /\ pc = "turn"
    /\ Len(nodes[1].children) >= 2
    /\ \E i \in 2..Len(nodes) :
          nodes[i].children # <<>> /\ nodes[i].children[1] > i + 1

\* what the claim says of a step that deals: every player ends with exactly
\* starting_hand_size tiles taken from the pool, no tile in two places, the
\* pool shorter by players times starting_hand_size, the board, the state
\* and the remembered node as they were
DealEffect ==
    /\ \A p \in Range(players) :
          /\ Len(hands'[p]) = starting_hand_size
          /\ ~HasNone(hands'[p])
          /\ Range(hands'[p]) \subseteq Range(boneyard) \ Range(boneyard')
    /\ Cardinality(UNION {Range(hands'[p]) : p \in Range(players)})
          = Len(players) * starting_hand_size
    /\ Len(boneyard') = Len(boneyard) - Len(players) * starting_hand_size
    /\ Range(boneyard') \subseteq Range(boneyard)
    /\ nodes' = nodes /\ state' = state /\ current_chickie' = current_chickie

\* C36 as stated: the deal of a Game started with empty hands gives every
\* player exactly starting_hand_size tiles, each removed from the pool, so
\* that the pool shrinks by players times starting_hand_size and no tile is
\* dealt twice; board, root and game state are unchanged by the deal.
C36_DealAnyPool ==
    [][(games = <<>> /\ pc = "deal") => DealEffect]_vars

\* C36, amended: the same for a pool that holds at least players times
\* starting_hand_size tiles.
C36_DealFrame ==
    [][(games = <<>> /\ pc = "deal" /\ DealFits) => DealEffect]_vars

\* two players have just been dealt two tiles each and the pool is not empty
C36_Witness ==
    /\ games = <<>> /\ JustDealt /\ DealFits
    /\ Len(players) = 2 /\ starting_hand_size = 2 /\ boneyard # <<>>
    /\ \A p \in Range(players) : Len(hands[p]) = 2

\* node i of the board has as many children as it may have
IsFull(i) == Len(nodes[i].children) = nodes[i].max_children

\* C38: on every tree, for every node and every tile, a call of add_child
\* that raises returns the whole tree, the parent's child list included, as
\* it was; a full node raises NodeFullException whether or not the tile
\* matches, and only a node with room raises the ValueError of a mismatch.
C38_FailedAddChild ==
    pc = "tree" =>
       \A parent \in 1..Len(nodes) : \A tile \in PlayTiles :
          LET added == add_child(nodes, parent, tile)
              matches == tile[1] = bottom(nodes[parent]) \/ tile[2] = bottom(nodes[parent])
          IN /\ added.err # "" => added.nodes = nodes /\ added.child = NoNode
             /\ IsFull(parent) => added.err = NodeFullException
             /\ (~IsFull(parent) /\ ~matches) => added.err = MismatchError
             /\ (~IsFull(parent) /\ matches) =>
                   added.err = "" /\ Len(added.nodes) = Len(nodes) + 1

\* a call has just raised NodeFullException on a tree with a full node whose
\* bottom end some tile of the set does not match
C38_Witness ==
    /\ pc = "tree" /\ err = NodeFullException
    /\ \E parent \in 1..Len(nodes) : \E tile \in PlayTiles :
          /\ IsFull(parent) /\ parent # 1
          /\ tile[1] # bottom(nodes[parent]) /\ tile[2] # bottom(nodes[parent])
====
